---- MODULE Spec2Model ----
(***************************************************************************)
(* A model of the Curriculum catalogue (src/Curriculum.py) and of the      *)
(* Discipline record validator (src/Discipline.py).                        *)
(*                                                                         *)
(* Python values are modelled as follows.                                  *)
(*   - int: a TLA+ integer (Python integers are unbounded).                *)
(*   - str: the sequence of the string's Unicode code points, so that      *)
(*     strip(), lower() and the lexicographic comparison of strings are    *)
(*     computed as Python computes them.                                   *)
(*   - tuple: a TLA+ tuple; list: a TLA+ sequence (Python index i is the   *)
(*     TLA+ index i + 1).                                                  *)
(*   - a Discipline object: a record of its six attributes.                *)
(***************************************************************************)
EXTENDS Integers, Sequences, FiniteSets, TLC

VARIABLES
    files,         \* the file system: what reading each file name gives
    disciplines,   \* Curriculum.disciplines: the catalogue, a list of Discipline
    op,            \* the method called last ("init" before any call)
    args,          \* the arguments of that call
    result,        \* the value it returned (<<>> when it raised)
    outcome        \* "none", "ok", or the name of the exception it raised

vars == <<files, disciplines, op, args, result, outcome>>

----------------------------------------------------------------------------
(* Bounds of the model.                                                    *)

MaxLen == 4        \* longest list handed to the sort on its own
MaxKey == 3        \* the integer keys of those elements are 1..MaxKey
MaxRecords == 3    \* most records in a loaded file

----------------------------------------------------------------------------
(* Strings.                                                                *)

\* The code points str.strip() removes (Python's Unicode whitespace).
Whitespace ==
    (9..13) \cup (28..32) \cup {133, 160, 5760} \cup (8192..8202)
        \cup {8232, 8233, 8239, 8287, 12288}

\* str.lower() on one code point: ASCII A-Z, Cyrillic А-Я and Ё.
LowerChar(c) ==
    IF c \in 65..90 THEN c + 32
    ELSE IF c \in 1040..1071 THEN c + 32
    ELSE IF c = 1025 THEN 1105
    ELSE c

lower(s) == [i \in 1..Len(s) |-> LowerChar(s[i])]

RECURSIVE lstrip(_)
lstrip(s) ==
    IF s # <<>> /\ Head(s) \in Whitespace THEN lstrip(Tail(s)) ELSE s

RECURSIVE rstrip(_)
rstrip(s) ==
    IF s # <<>> /\ s[Len(s)] \in Whitespace
    THEN rstrip(SubSeq(s, 1, Len(s) - 1))
    ELSE s

strip(s) == rstrip(lstrip(s))

\* s < t for two strings: lexicographic by code point, a proper prefix first.
RECURSIVE StrLess(_, _)
StrLess(s, t) ==
    IF t = <<>> THEN FALSE
    ELSE IF s = <<>> THEN TRUE
    ELSE IF Head(s) # Head(t) THEN Head(s) < Head(t)
    ELSE StrLess(Tail(s), Tail(t))

----------------------------------------------------------------------------
(* Sort keys.  A key function is named; KeyShape gives the Python type of  *)
(* the key it returns: "int", or the types of the components of a tuple.   *)

KeyFuncs == {"ident", "neg", "full_list", "report_type", "hours_range"}

KeyShape(key_func) ==
    CASE key_func = "ident"       -> <<"scalar", "int">>
      [] key_func = "neg"         -> <<"scalar", "int">>
      [] key_func = "full_list"   -> <<"tuple", "int", "str", "int">>
      [] key_func = "report_type" -> <<"tuple", "int", "int">>
      [] key_func = "hours_range" -> <<"tuple", "str", "int">>

\* The keys with the hours ascending: the minus sign left out.
KeyOf_hours_ascending(key_func, element) ==
    CASE key_func = "ident"       -> element.k
      [] key_func = "neg"         -> -element.k
      [] key_func = "full_list"   ->
            <<element.semester, element.department, element.hours>>
      [] key_func = "report_type" -> <<element.duration, element.hours>>
      [] key_func = "hours_range" -> <<element.department, element.hours>>

\* The keys with the two components of the key of get_by_report_type
\* exchanged: the hours decide before the duration.
KeyOf_hours_first(key_func, element) ==
    CASE key_func = "ident"       -> element.k
      [] key_func = "neg"         -> -element.k
      [] key_func = "full_list"   ->
            <<element.semester, element.department, -element.hours>>
      [] key_func = "report_type" -> <<-element.hours, element.duration>>
      [] key_func = "hours_range" -> <<element.department, -element.hours>>

\* key_func(element)
KeyOf(key_func, element) ==
    CASE key_func = "ident"       -> element.k
      [] key_func = "neg"         -> -element.k
      [] key_func = "full_list"   ->
            <<element.semester, element.department, -element.hours>>
      [] key_func = "report_type" -> <<element.duration, -element.hours>>
      [] key_func = "hours_range" -> <<element.department, -element.hours>>

\* x < y for two values of the Python type ty ("int" or "str").
AtomLess(ty, x, y) == IF ty = "int" THEN x < y ELSE StrLess(x, y)

\* a < b for two tuples whose components from index i on have the types
\* shape[i + 1], ...: the first differing component decides.
RECURSIVE TupleLess(_, _, _, _)
TupleLess(shape, a, b, i) ==
    IF i > Len(a) THEN FALSE
    ELSE IF a[i] # b[i] THEN AtomLess(shape[i + 1], a[i], b[i])
    ELSE TupleLess(shape, a, b, i + 1)

\* key_a < key_b, as Python evaluates it on two keys of one key function.
KeyLess(key_func, key_a, key_b) ==
    LET shape == KeyShape(key_func) IN
    IF shape[1] = "scalar" THEN AtomLess(shape[2], key_a, key_b)
    ELSE TupleLess(shape, key_a, key_b, 1)

----------------------------------------------------------------------------
(* The binary insertion sort.                                              *)

\* search_loop with the comparison "<=" in place of "<" (the upper bound).
RECURSIVE search_loop_upper(_, _, _, _, _)
search_loop_upper(sorted_list, element_key, key_func, left, right) ==
    IF left < right
    THEN LET mid == (left + right) \div 2 IN
         IF ~KeyLess(key_func, element_key, KeyOf(key_func, sorted_list[mid + 1]))
         THEN search_loop_upper(sorted_list, element_key, key_func, mid + 1, right)
         ELSE search_loop_upper(sorted_list, element_key, key_func, left, mid)
    ELSE left

\* search_loop with "right = mid - 1" in place of "right = mid".
RECURSIVE search_loop_right_short(_, _, _, _, _)
search_loop_right_short(sorted_list, element_key, key_func, left, right) ==
    IF left < right
    THEN LET mid == (left + right) \div 2 IN
         IF KeyLess(key_func, KeyOf(key_func, sorted_list[mid + 1]), element_key)
         THEN search_loop_right_short(sorted_list, element_key, key_func,
                                      mid + 1, right)
         ELSE search_loop_right_short(sorted_list, element_key, key_func,
                                      left, mid - 1)
    ELSE left

\* The while loop of _binary_search_insert_position; left and right are the
\* Python (0-based) bounds.
RECURSIVE search_loop(_, _, _, _, _)
search_loop(sorted_list, element_key, key_func, left, right) ==
    IF left < right
    THEN LET mid == (left + right) \div 2 IN
         IF KeyLess(key_func, KeyOf(key_func, sorted_list[mid + 1]), element_key)
         THEN search_loop(sorted_list, element_key, key_func, mid + 1, right)
         ELSE search_loop(sorted_list, element_key, key_func, left, mid)
    ELSE left

\* A search that always answers the front of the list.
binary_search_at_front(sorted_list, element, key_func) == 0

\* A search that always answers the end of the list.
binary_search_at_end(sorted_list, element, key_func) == Len(sorted_list)

binary_search_insert_position(sorted_list, element, key_func) ==
    search_loop(sorted_list, KeyOf(key_func, element), key_func,
                0, Len(sorted_list))

\* An assignment list[position] = element where the insertion belongs.
insert_overwrite(sorted_list, position, element) ==
    IF position < Len(sorted_list)
    THEN [sorted_list EXCEPT ![position + 1] = element]
    ELSE Append(sorted_list, element)

\* list.insert(position, element) for 0 <= position <= len(list).
insert(sorted_list, position, element) ==
    SubSeq(sorted_list, 1, position) \o <<element>>
        \o SubSeq(sorted_list, position + 1, Len(sorted_list))

\* sort_loop taking the elements of items from the last to the first.
RECURSIVE sort_loop_backwards(_, _, _, _)
sort_loop_backwards(items, key_func, sorted_list, i) ==
    IF i > Len(items) THEN sorted_list
    ELSE LET element == items[Len(items) + 1 - i]
             position ==
                 binary_search_insert_position(sorted_list, element, key_func)
         IN sort_loop_backwards(items, key_func,
                                insert(sorted_list, position, element), i + 1)

\* The for loop of _binary_insertion_sort, from the i-th element of items on.
RECURSIVE sort_loop(_, _, _, _)
sort_loop(items, key_func, sorted_list, i) ==
    IF i > Len(items) THEN sorted_list
    ELSE LET element == items[i]
             position ==
                 binary_search_insert_position(sorted_list, element, key_func)
         IN sort_loop(items, key_func, insert(sorted_list, position, element),
                      i + 1)

binary_insertion_sort(items, key_func) == sort_loop(items, key_func, <<>>, 1)

----------------------------------------------------------------------------
(* JSON values and the Discipline validator (src/Discipline.py).  A JSON   *)
(* value is tagged with its Python type: an int, a str, or the float       *)
(* infinity that json.load makes of 1e999 and of Infinity.                 *)

JInt(n) == [t |-> "int", v |-> n]
JStr(s) == [t |-> "str", v |-> s]
JInfinity == [t |-> "float", v |-> "inf"]

Digits == 48..57

\* The decimal digits of n >= 0, as str(n) writes them.
RECURSIVE DigitsOf(_)
DigitsOf(n) ==
    IF n < 10 THEN <<48 + n>> ELSE Append(DigitsOf(n \div 10), 48 + (n % 10))

\* str(x); str(float('inf')) is 'inf'.
str(x) ==
    IF x.t = "str" THEN x.v
    ELSE IF x.t = "float" THEN <<105, 110, 102>>
    ELSE IF x.v < 0 THEN <<45>> \o DigitsOf(-x.v) ELSE DigitsOf(x.v)

\* The number a non-empty sequence of ASCII digits denotes.
RECURSIVE NumberOf(_)
NumberOf(ds) ==
    IF ds = <<>> THEN 0
    ELSE 10 * NumberOf(SubSeq(ds, 1, Len(ds) - 1)) + (ds[Len(ds)] - 48)

\* int(x): [ok, v, error].  A str is stripped and read as an optional sign
\* and ASCII digits, anything else in it is the ValueError; the float
\* infinity is the OverflowError.
int(x) ==
    IF x.t = "int" THEN [ok |-> TRUE, v |-> x.v, error |-> "none"]
    ELSE IF x.t = "float" THEN [ok |-> FALSE, v |-> 0, error |-> "OverflowError"]
    ELSE LET body == strip(x.v)
             signed == body # <<>> /\ Head(body) \in {43, 45}
             ds == IF signed THEN Tail(body) ELSE body
         IN IF ds # <<>> /\ \A i \in DOMAIN ds : ds[i] \in Digits
            THEN [ok |-> TRUE,
                  v |-> IF signed /\ Head(body) = 45
                        THEN -NumberOf(ds) ELSE NumberOf(ds),
                  error |-> "none"]
            ELSE [ok |-> FALSE, v |-> 0, error |-> "ValueError"]

\* except (ValueError, TypeError): the errors of int() a validator turns
\* into its own exception; any other error leaves the validator as it is.
Caught(error, raised) ==
    IF error \in {"ValueError", "TypeError"} THEN raised ELSE error

\* The code points of 'зачёт' and of 'экзамен'.
ZACHET == <<1079, 1072, 1095, 1105, 1090>>
EKZAMEN == <<1101, 1082, 1079, 1072, 1084, 1077, 1085>>
VALID_REPORT_TYPES == {ZACHET, EKZAMEN}
MIN_SEMESTER == 1
MAX_SEMESTER == 8
MIN_HOURS == 36
MAX_HOURS == 216

\* Each validator answers [ok, v]: the validated value, or in v the name of
\* the exception it raises.
Ok(v) == [ok |-> TRUE, v |-> v]
Raise(e) == [ok |-> FALSE, v |-> e]

validate_name(name) ==
    LET n == strip(str(name)) IN
    IF n = <<>> THEN Raise("DisciplineException") ELSE Ok(n)

validate_department(department) ==
    LET d == strip(str(department)) IN
    IF d = <<>> THEN Raise("DisciplineException") ELSE Ok(d)

\* _validate_semester with the lower bound one too low.
validate_semester_from_zero(semester) ==
    LET n == int(semester) IN
    IF ~n.ok THEN Raise(Caught(n.error, "InvalidSemesterError"))
    ELSE IF ~(MIN_SEMESTER - 1 <= n.v /\ n.v <= MAX_SEMESTER)
         THEN Raise("InvalidSemesterError")
         ELSE Ok(n.v)

validate_semester(semester) ==
    LET n == int(semester) IN
    IF ~n.ok THEN Raise(Caught(n.error, "InvalidSemesterError"))
    ELSE IF ~(MIN_SEMESTER <= n.v /\ n.v <= MAX_SEMESTER)
         THEN Raise("InvalidSemesterError")
         ELSE Ok(n.v)

validate_duration(duration, semester) ==
    LET n == int(duration)
        max_duration == MAX_SEMESTER - semester + 1
    IN IF ~n.ok THEN Raise(Caught(n.error, "InvalidDurationError"))
       ELSE IF ~(1 <= n.v /\ n.v <= max_duration)
            THEN Raise("InvalidDurationError")
            ELSE Ok(n.v)

validate_hours(hours) ==
    LET n == int(hours) IN
    IF ~n.ok THEN Raise(Caught(n.error, "InvalidHoursError"))
    ELSE IF ~(MIN_HOURS <= n.v /\ n.v <= MAX_HOURS)
         THEN Raise("InvalidHoursError")
         ELSE Ok(n.v)

validate_report_type(report_type) ==
    LET r == lower(strip(str(report_type))) IN
    IF r \notin VALID_REPORT_TYPES THEN Raise("InvalidReportTypeError")
    ELSE Ok(r)

\* Discipline.__init__: the attributes are validated in the order name,
\* semester, duration, hours, report_type, department; the first failure
\* raises.
Discipline(name, semester, duration, hours, report_type, department) ==
    LET n == validate_name(name) IN
    IF ~n.ok THEN n ELSE
    LET s == validate_semester(semester) IN
    IF ~s.ok THEN s ELSE
    LET d == validate_duration(duration, s.v) IN
    IF ~d.ok THEN d ELSE
    LET h == validate_hours(hours) IN
    IF ~h.ok THEN h ELSE
    LET r == validate_report_type(report_type) IN
    IF ~r.ok THEN r ELSE
    LET p == validate_department(department) IN
    IF ~p.ok THEN p ELSE
    Ok([name |-> n.v, semester |-> s.v, duration |-> d.v, hours |-> h.v,
        report_type |-> r.v, department |-> p.v])

required_keys ==
    {"name", "semester", "duration", "hours", "report_type", "department"}

\* Discipline.from_dict: data is a JSON object, a function on its keys.
from_dict(data) ==
    IF \E key \in required_keys : key \notin DOMAIN data
    THEN Raise("DisciplineException")
    ELSE Discipline(data.name, data.semester, data.duration, data.hours,
                    data.report_type, data.department)

----------------------------------------------------------------------------
(* The catalogue (src/Curriculum.py).                                      *)

\* DisciplineException and the subclasses of it the validator raises.
DisciplineExceptions ==
    {"DisciplineException", "InvalidSemesterError", "InvalidDurationError",
     "InvalidHoursError", "InvalidReportTypeError"}

\* The for loop of load_from_file from the i-th item of data on, as
\* [loaded, raised]: an item that raises a DisciplineException is reported
\* and skipped; any other exception ends the loop and leaves load_from_file,
\* with the catalogue holding what was appended so far.
RECURSIVE load_loop(_, _, _)
load_loop(data, loaded, i) ==
    IF i > Len(data) THEN [loaded |-> loaded, raised |-> "none"]
    ELSE LET discipline == from_dict(data[i]) IN
         IF discipline.ok
         THEN load_loop(data, Append(loaded, discipline.v), i + 1)
         ELSE IF discipline.v \in DisciplineExceptions
              THEN load_loop(data, loaded, i + 1)
              ELSE [loaded |-> loaded, raised |-> discipline.v]

\* A check that never raises.
check_never_raises(ds) == TRUE

\* _check_not_empty: TRUE when it returns, FALSE when it raises.
check_not_empty(ds) == ds # <<>>

\* The body of get_full_list_sorted after the check.
full_list_sorted(ds) == binary_insertion_sort(ds, "full_list")

\* get_by_report_type comparing with the request as given, not normalised.
by_report_type_as_given(ds, report_type) ==
    IF report_type \notin VALID_REPORT_TYPES THEN <<>>
    ELSE LET filtered == SelectSeq(ds, LAMBDA d : d.report_type = report_type) IN
         IF filtered = <<>> THEN <<>>
         ELSE binary_insertion_sort(filtered, "report_type")

\* get_by_report_type answering the whole catalogue, unsorted, to a request
\* that is no report type.
by_report_type_unknown_all(ds, report_type) ==
    LET requested == lower(strip(report_type)) IN
    IF requested \notin VALID_REPORT_TYPES THEN ds
    ELSE LET filtered == SelectSeq(ds, LAMBDA d : d.report_type = requested) IN
         IF filtered = <<>> THEN <<>>
         ELSE binary_insertion_sort(filtered, "report_type")

\* The body of get_by_report_type after the check.
by_report_type(ds, report_type) ==
    LET requested == lower(strip(report_type)) IN
    IF requested \notin VALID_REPORT_TYPES THEN <<>>
    ELSE LET filtered == SelectSeq(ds, LAMBDA d : d.report_type = requested) IN
         IF filtered = <<>> THEN <<>>
         ELSE binary_insertion_sort(filtered, "report_type")

\* get_by_hours_range with the bounds excluded from the range.
by_hours_range_exclusive(ds, min_hours, max_hours) ==
    LET lo == IF min_hours > max_hours THEN max_hours ELSE min_hours
        hi == IF min_hours > max_hours THEN min_hours ELSE max_hours
        filtered == SelectSeq(ds, LAMBDA d : lo < d.hours /\ d.hours < hi)
    IN IF filtered = <<>> THEN <<>>
       ELSE binary_insertion_sort(filtered, "hours_range")

\* get_by_hours_range sorting with the key of get_by_report_type.
by_hours_range_wrong_key(ds, min_hours, max_hours) ==
    LET lo == IF min_hours > max_hours THEN max_hours ELSE min_hours
        hi == IF min_hours > max_hours THEN min_hours ELSE max_hours
        filtered == SelectSeq(ds, LAMBDA d : lo <= d.hours /\ d.hours <= hi)
    IN IF filtered = <<>> THEN <<>>
       ELSE binary_insertion_sort(filtered, "report_type")

\* get_by_hours_range without the exchange of the bounds.
by_hours_range_no_swap(ds, min_hours, max_hours) ==
    LET filtered ==
            SelectSeq(ds, LAMBDA d : min_hours <= d.hours /\ d.hours <= max_hours)
    IN IF filtered = <<>> THEN <<>>
       ELSE binary_insertion_sort(filtered, "hours_range")

\* The body of get_by_hours_range after the check.
by_hours_range(ds, min_hours, max_hours) ==
    LET lo == IF min_hours > max_hours THEN max_hours ELSE min_hours
        hi == IF min_hours > max_hours THEN min_hours ELSE max_hours
        filtered == SelectSeq(ds, LAMBDA d : lo <= d.hours /\ d.hours <= hi)
    IN IF filtered = <<>> THEN <<>>
       ELSE binary_insertion_sort(filtered, "hours_range")

\* sorted(xs) for a list of strings: ascending; equal strings are alike.
RECURSIVE sorted(_)
sorted(xs) ==
    IF xs = <<>> THEN <<>>
    ELSE LET m == CHOOSE i \in DOMAIN xs :
                      \A j \in DOMAIN xs : ~StrLess(xs[j], xs[i])
         IN <<xs[m]>> \o sorted(SubSeq(xs, 1, m - 1) \o SubSeq(xs, m + 1, Len(xs)))

\* sorted(set(xs)): the distinct strings of xs, ascending.
RECURSIVE sorted_set(_)
sorted_set(strs) ==
    IF strs = {} THEN <<>>
    ELSE LET m == CHOOSE x \in strs : \A y \in strs : ~StrLess(y, x)
         IN <<m>> \o sorted_set(strs \ {m})

----------------------------------------------------------------------------
(* The sort on its own: the inputs are drawn in the initial state and the  *)
(* one action applies the sort to them.                                    *)

SeqsUpTo(S, n) == UNION {[1..m -> S] : m \in 0..n}

\* Elements with an integer key k and a payload v that the key ignores.
Elements == [k : 1..MaxKey, v : {"a", "b"}]

SortInit ==
    /\ files = <<>>
    /\ disciplines = <<>>
    /\ op = "init"
    /\ args \in [items : SeqsUpTo(Elements, MaxLen), key_func : {"ident", "neg"}]
    /\ result = <<>>
    /\ outcome = "none"

SortCall ==
    /\ op = "init"
    /\ op' = "_binary_insertion_sort"
    /\ result' = binary_insertion_sort(args.items, args.key_func)
    /\ outcome' = "ok"
    /\ UNCHANGED <<files, disciplines, args>>

\* The sort applied to its own output.
SortAgain ==
    /\ op = "_binary_insertion_sort"
    /\ op' = "sort_again"
    /\ result' = binary_insertion_sort(result, args.key_func)
    /\ outcome' = "ok"
    /\ UNCHANGED <<files, disciplines, args>>

\* The list is in non-decreasing key order, as the sorted_list that
\* _binary_insertion_sort hands to the search always is.
NonDecreasing(items, key_func) ==
    \A i \in 1..(Len(items) - 1) :
        ~KeyLess(key_func, KeyOf(key_func, items[i + 1]), KeyOf(key_func, items[i]))

\* The search on its own, for a sorted list and any element.
SearchCall ==
    /\ op = "init"
    /\ NonDecreasing(args.items, args.key_func)
    /\ \E element \in Elements :
          /\ args' = [items |-> args.items, key_func |-> args.key_func,
                      element |-> element]
          /\ result' = binary_search_insert_position(args.items, element,
                                                     args.key_func)
    /\ op' = "_binary_search_insert_position"
    /\ outcome' = "ok"
    /\ UNCHANGED <<files, disciplines>>

SortNext == SortCall \/ SortAgain \/ SearchCall

SortSpec == SortInit /\ [][SortNext]_vars

----------------------------------------------------------------------------
(* The constructor on its own: the arguments are drawn in the initial      *)
(* state and the one action constructs a Discipline from them.             *)

\* The semesters, durations and hours of the constructor tests, the values
\* next to them on the other side of each limit, and the float infinity
\* that from_dict passes on from a file.
SemesterValues == {JInt(n) : n \in {0, 1, 7, 8, 9}} \cup {JInfinity}
DurationValues == {JInt(n) : n \in {0, 1, 2, 3, 8, 9}} \cup {JInfinity}
HoursValues == {JInt(n) : n \in {35, 36, 216, 217}} \cup {JInfinity}

\* The report types 'экзамен', 'зачёт' and 'x'.
ReportTypeValues == {JStr(EKZAMEN), JStr(ZACHET), JStr(<<120>>)}

ValidateInit ==
    /\ files = <<>>
    /\ disciplines = <<>>
    /\ op = "init"
    /\ args \in [name : {JStr(<<65>>)}, semester : SemesterValues,
                 duration : DurationValues, hours : HoursValues,
                 report_type : ReportTypeValues, department : {JStr(<<90>>)}]
    /\ result = <<>>
    /\ outcome = "none"

\* Discipline(name, semester, duration, hours, report_type, department):
\* the object, or the exception the constructor ends with.
DisciplineCall ==
    /\ op = "init"
    /\ op' = "Discipline"
    /\ LET d == Discipline(args.name, args.semester, args.duration,
                           args.hours, args.report_type, args.department)
       IN IF d.ok THEN outcome' = "ok" /\ result' = d.v
          ELSE outcome' = d.v /\ result' = <<>>
    /\ UNCHANGED <<files, disciplines, args>>

ValidateNext == DisciplineCall

ValidateSpec == ValidateInit /\ [][ValidateNext]_vars

----------------------------------------------------------------------------
(* The catalogue as a state machine: a Curriculum object on which          *)
(* load_from_file, the three reports and the auxiliary queries are called  *)
(* in any order, with any of the inputs below.                             *)

\* The JSON objects a file is made of.  RecA..RecE pass the validation:
\*        name  semester  duration  hours  report_type  department
\*   A    "A"      1         1       100   'экзамен'       "Z"
\*   B    "B"      1         2        50   'зачёт'         "A"
\*   C    "C"      2         1       200   'экзамен'       "A"
\*   D    "D"      1         1       100   'экзамен'       "Z"
\*   E    "E"      1         2       120   'экзамен'       "A"
\* (B gives its semester as the string "1", C its report type as
\* ' ЭКЗАМЕН ', E its department as ' A').  RecBadSemester has semester 0,
\* RecNoHours lacks the key 'hours' and RecHoursInfinity has the hours
\* 1e999.
RecA ==
    [name |-> JStr(<<65>>), semester |-> JInt(1), duration |-> JInt(1),
     hours |-> JInt(100), report_type |-> JStr(EKZAMEN),
     department |-> JStr(<<90>>)]
RecB ==
    [name |-> JStr(<<66>>), semester |-> JStr(<<49>>), duration |-> JInt(2),
     hours |-> JInt(50), report_type |-> JStr(ZACHET),
     department |-> JStr(<<65>>)]
RecC ==
    [name |-> JStr(<<67>>), semester |-> JInt(2), duration |-> JInt(1),
     hours |-> JInt(200),
     report_type |-> JStr(<<32, 1069, 1050, 1047, 1040, 1052, 1045, 1053, 32>>),
     department |-> JStr(<<65>>)]
RecD ==
    [name |-> JStr(<<68>>), semester |-> JInt(1), duration |-> JInt(1),
     hours |-> JInt(100), report_type |-> JStr(EKZAMEN),
     department |-> JStr(<<90>>)]
RecE ==
    [name |-> JStr(<<69>>), semester |-> JInt(1), duration |-> JInt(2),
     hours |-> JInt(120), report_type |-> JStr(EKZAMEN),
     department |-> JStr(<<32, 65>>)]
RecBadSemester ==
    [name |-> JStr(<<70>>), semester |-> JInt(0), duration |-> JInt(1),
     hours |-> JInt(100), report_type |-> JStr(EKZAMEN),
     department |-> JStr(<<65>>)]
RecNoHours ==
    [name |-> JStr(<<71>>), semester |-> JInt(1), duration |-> JInt(1),
     report_type |-> JStr(EKZAMEN), department |-> JStr(<<65>>)]

RecHoursInfinity ==
    [name |-> JStr(<<72>>), semester |-> JInt(1), duration |-> JInt(1),
     hours |-> JInfinity, report_type |-> JStr(EKZAMEN),
     department |-> JStr(<<65>>)]

JsonObjects ==
    {RecA, RecB, RecC, RecD, RecE, RecBadSemester, RecNoHours, RecHoursInfinity}

\* What open() and json.load() make of a file: the parsed array, or one of
\* the three exceptions load_from_file catches.
FileContents ==
    [error : {"none"}, data : SeqsUpTo(JsonObjects, MaxRecords)]
        \cup [error : {"FileNotFoundError", "JSONDecodeError", "PermissionError"},
              data : {<<>>}]

\* The file names load_from_file is called with: the database file, whose
\* content is any of FileContents, and a file that does not exist.  The
\* program only reads files, so the file system does not change.
FileNames == {"disciplines_database.json", "nonexistent_file.json"}

FileSystems ==
    {fs \in [FileNames -> FileContents] :
        fs["nonexistent_file.json"] =
            [error |-> "FileNotFoundError", data |-> <<>>]}

\* The report types asked for: 'экзамен', ' ЗАЧЁТ ' and 'x'.
ReportTypeInputs ==
    {EKZAMEN, <<32, 1047, 1040, 1063, 1025, 1058, 32>>, <<120>>}

\* The bounds asked for in get_by_hours_range.
HoursInputs == {50, 100, 200}

\* Curriculum(): the catalogue is empty.
Init ==
    /\ files \in FileSystems
    /\ disciplines = <<>>
    /\ op = "init"
    /\ args = <<>>
    /\ result = <<>>
    /\ outcome = "none"

\* load_from_file emptying the catalogue before it opens the file.
load_from_file_clears_first(filename) ==
    /\ op' = "load_from_file"
    /\ args' = [filename |-> filename]
    /\ result' = <<>>
    /\ IF files[filename].error # "none"
       THEN /\ outcome' = "FileOperationError"
            /\ disciplines' = <<>>
       ELSE LET loop == load_loop(files[filename].data, <<>>, 1) IN
            /\ disciplines' = loop.loaded
            /\ outcome' = IF loop.raised = "none" THEN "ok" ELSE loop.raised
    /\ UNCHANGED files

load_from_file(filename) ==
    /\ op' = "load_from_file"
    /\ args' = [filename |-> filename]
    /\ result' = <<>>
    /\ IF files[filename].error # "none"
       THEN /\ outcome' = "FileOperationError"
            /\ UNCHANGED disciplines
       ELSE LET loop == load_loop(files[filename].data, <<>>, 1) IN
            /\ disciplines' = loop.loaded
            /\ outcome' = IF loop.raised = "none" THEN "ok" ELSE loop.raised
    /\ UNCHANGED files

\* get_full_list_sorted sorting the catalogue itself, as list.sort() does.
get_full_list_sorted_in_place ==
    /\ op' = "get_full_list_sorted"
    /\ args' = <<>>
    /\ IF ~check_not_empty(disciplines)
       THEN outcome' = "EmptyDatabaseError" /\ result' = <<>>
                /\ UNCHANGED disciplines
       ELSE /\ outcome' = "ok"
            /\ result' = full_list_sorted(disciplines)
            /\ disciplines' = result'
    /\ UNCHANGED files

get_full_list_sorted ==
    /\ op' = "get_full_list_sorted"
    /\ args' = <<>>
    /\ IF ~check_not_empty(disciplines)
       THEN outcome' = "EmptyDatabaseError" /\ result' = <<>>
       ELSE outcome' = "ok" /\ result' = full_list_sorted(disciplines)
    /\ UNCHANGED <<files, disciplines>>

get_by_report_type(report_type) ==
    /\ op' = "get_by_report_type"
    /\ args' = [report_type |-> report_type]
    /\ IF ~check_not_empty(disciplines)
       THEN outcome' = "EmptyDatabaseError" /\ result' = <<>>
       ELSE outcome' = "ok" /\ result' = by_report_type(disciplines, report_type)
    /\ UNCHANGED <<files, disciplines>>

get_by_hours_range(min_hours, max_hours) ==
    /\ op' = "get_by_hours_range"
    /\ args' = [min_hours |-> min_hours, max_hours |-> max_hours]
    /\ IF ~check_not_empty(disciplines)
       THEN outcome' = "EmptyDatabaseError" /\ result' = <<>>
       ELSE /\ outcome' = "ok"
            /\ result' = by_hours_range(disciplines, min_hours, max_hours)
    /\ UNCHANGED <<files, disciplines>>

\* get_disciplines_count with the check of the reports in front.
get_disciplines_count_checked ==
    /\ op' = "get_disciplines_count"
    /\ args' = <<>>
    /\ IF ~check_not_empty(disciplines)
       THEN outcome' = "EmptyDatabaseError" /\ result' = <<>>
       ELSE outcome' = "ok" /\ result' = Len(disciplines)
    /\ UNCHANGED <<files, disciplines>>

get_disciplines_count ==
    /\ op' = "get_disciplines_count"
    /\ args' = <<>>
    /\ outcome' = "ok"
    /\ result' = Len(disciplines)
    /\ UNCHANGED <<files, disciplines>>

get_unique_departments ==
    /\ op' = "get_unique_departments"
    /\ args' = <<>>
    /\ outcome' = "ok"
    /\ result' = sorted_set({disciplines[i].department : i \in DOMAIN disciplines})
    /\ UNCHANGED <<files, disciplines>>

get_unique_report_types ==
    /\ op' = "get_unique_report_types"
    /\ args' = <<>>
    /\ outcome' = "ok"
    /\ result' = sorted_set({disciplines[i].report_type : i \in DOMAIN disciplines})
    /\ UNCHANGED <<files, disciplines>>

get_all_discipline_names ==
    /\ op' = "get_all_discipline_names"
    /\ args' = <<>>
    /\ outcome' = "ok"
    /\ result' = sorted([i \in DOMAIN disciplines |-> disciplines[i].name])
    /\ UNCHANGED <<files, disciplines>>

Next ==
    \/ \E filename \in FileNames : load_from_file(filename)
    \/ get_full_list_sorted
    \/ \E report_type \in ReportTypeInputs : get_by_report_type(report_type)
    \/ \E min_hours, max_hours \in HoursInputs :
           get_by_hours_range(min_hours, max_hours)
    \/ get_disciplines_count
    \/ get_unique_departments
    \/ get_unique_report_types
    \/ get_all_discipline_names

Spec == Init /\ [][Next]_vars

----------------------------------------------------------------------------
(* Properties of the sort (specification SortSpec).                        *)

Sorted == op = "_binary_insertion_sort"

\* The number of occurrences of e in the sequence s.
Count(s, e) == Cardinality({i \in DOMAIN s : s[i] = e})

Reverse(s) == [i \in 1..Len(s) |-> s[Len(s) + 1 - i]]

\* The elements of s whose key is c, in the order they have in s.
WithKey(s, key_func, c) ==
    SelectSeq(s, LAMBDA e : KeyOf(key_func, e) = c)

\* C1: the output of _binary_insertion_sort is ordered non-decreasingly by
\* key: key(x) <= key(y) for every adjacent pair (x, y) of the output.
C1_SortedByKey ==
    Sorted =>
        \A i \in 1..(Len(result) - 1) :
            KeyOf(args.key_func, result[i]) <= KeyOf(args.key_func, result[i + 1])

\* A sort of at least three elements that were not in key order.
C1_Witness ==
    /\ Sorted
    /\ Len(args.items) >= 3
    /\ \E i \in 1..(Len(args.items) - 1) :
           KeyOf(args.key_func, args.items[i])
               > KeyOf(args.key_func, args.items[i + 1])
    /\ result # args.items

\* C2: the output of _binary_insertion_sort has the length of the input and
\* is a permutation of it (every element occurs as often as in the input);
\* the empty list gives the empty list, a single element is returned as is.
C2_Permutation ==
    Sorted =>
        /\ Len(result) = Len(args.items)
        /\ \A e \in Elements : Count(result, e) = Count(args.items, e)
        /\ Len(args.items) <= 1 => result = args.items

\* A sort of a list in which one element occurs twice and another once.
C2_Witness ==
    /\ Sorted
    /\ \E e \in Elements : Count(args.items, e) = 2
    /\ \E e \in Elements : Count(args.items, e) = 1
    /\ result # args.items

\* C3, as claimed: the sort is stable, elements with equal keys keep the
\* order they have in the input.
C3_Stable ==
    Sorted =>
        \A e \in Elements :
            LET c == KeyOf(args.key_func, e) IN
            WithKey(result, args.key_func, c) = WithKey(args.items, args.key_func, c)

\* C3, amended: elements with equal keys come out in the reverse of the
\* order they have in the input (the element inserted later is placed
\* before every element of the same key).
C3_EqualKeysReversed ==
    Sorted =>
        \A e \in Elements :
            LET c == KeyOf(args.key_func, e) IN
            WithKey(result, args.key_func, c)
                = Reverse(WithKey(args.items, args.key_func, c))

\* A sort of a list that holds two different elements of one key.
C3_Witness ==
    /\ Sorted
    /\ \E i, j \in DOMAIN args.items :
           /\ i < j
           /\ args.items[i] # args.items[j]
           /\ args.items[i].k = args.items[j].k

----------------------------------------------------------------------------
(* Properties of the reports (specification Spec).                         *)

\* The Discipline objects the JSON objects RecA..RecE become.
Obj(name, semester, duration, hours, report_type, department) ==
    [name |-> name, semester |-> semester, duration |-> duration,
     hours |-> hours, report_type |-> report_type, department |-> department]
DiscA == Obj(<<65>>, 1, 1, 100, EKZAMEN, <<90>>)
DiscB == Obj(<<66>>, 1, 2, 50, ZACHET, <<65>>)
DiscC == Obj(<<67>>, 2, 1, 200, EKZAMEN, <<65>>)
DiscD == Obj(<<68>>, 1, 1, 100, EKZAMEN, <<90>>)
DiscE == Obj(<<69>>, 1, 2, 120, EKZAMEN, <<65>>)

Range(s) == {s[i] : i \in DOMAIN s}

\* The sequence out holds exactly the records of the catalogue that
\* satisfy Keep, each as often as the catalogue holds it.
ExactlyThose(out, Keep(_)) ==
    \A d \in Range(disciplines) \cup Range(out) :
        Count(out, d) = IF Keep(d) THEN Count(disciplines, d) ELSE 0

\* C4: on a non-empty catalogue get_full_list_sorted returns all records of
\* the catalogue, ordered by semester ascending, then department ascending,
\* then hours descending; the catalogue [A, B, C] of the scenario gives
\* [B, A, C].
C4_FullListOrdered ==
    (op = "get_full_list_sorted" /\ disciplines # <<>>) =>
        /\ outcome = "ok"
        /\ Len(result) = Len(disciplines)
        /\ ExactlyThose(result, LAMBDA d : TRUE)
        /\ \A i \in 1..(Len(result) - 1) :
              LET x == result[i]
                  y == result[i + 1]
              IN \/ x.semester < y.semester
                 \/ x.semester = y.semester /\ StrLess(x.department, y.department)
                 \/ /\ x.semester = y.semester
                    /\ x.department = y.department
                    /\ x.hours >= y.hours
        /\ disciplines = <<DiscA, DiscB, DiscC>> => result = <<DiscB, DiscA, DiscC>>

\* The full list of the catalogue [A, B, C] of the scenario.
C4_Witness ==
    /\ op = "get_full_list_sorted"
    /\ disciplines = <<DiscA, DiscB, DiscC>>
    /\ result = <<DiscB, DiscA, DiscC>>

\* C5: the result of get_by_report_type is ordered by duration ascending,
\* then hours descending.
C5_ByReportTypeOrdered ==
    (op = "get_by_report_type" /\ disciplines # <<>>) =>
        /\ outcome = "ok"
        /\ \A i \in 1..(Len(result) - 1) :
              LET x == result[i]
                  y == result[i + 1]
              IN \/ x.duration < y.duration
                 \/ x.duration = y.duration /\ x.hours >= y.hours

\* A report by type of three records: two durations, and two different
\* hours within one duration, loaded in another order.
C5_Witness ==
    /\ op = "get_by_report_type"
    /\ disciplines = <<DiscE, DiscA, DiscC>>
    /\ result = <<DiscC, DiscA, DiscE>>

\* C6: the result of get_by_hours_range is ordered by department ascending,
\* then hours descending.
C6_ByHoursRangeOrdered ==
    (op = "get_by_hours_range" /\ disciplines # <<>>) =>
        /\ outcome = "ok"
        /\ \A i \in 1..(Len(result) - 1) :
              LET x == result[i]
                  y == result[i + 1]
              IN \/ StrLess(x.department, y.department)
                 \/ x.department = y.department /\ x.hours >= y.hours

\* A report by hours of three records: two departments, and two different
\* hours within one department, loaded in another order.
C6_Witness ==
    /\ op = "get_by_hours_range"
    /\ disciplines = <<DiscA, DiscB, DiscC>>
    /\ result = <<DiscC, DiscB, DiscA>>

\* The canonical report type a request stands for once trimmed and
\* lower-cased, the empty string when it stands for none.
Requested(report_type) ==
    CASE report_type = EKZAMEN -> EKZAMEN
      [] report_type = <<32, 1047, 1040, 1063, 1025, 1058, 32>> -> ZACHET
      [] OTHER -> <<>>

\* C7: on a non-empty catalogue, for a request that is 'зачёт' or 'экзамен'
\* once trimmed and lower-cased, get_by_report_type returns exactly the
\* records of that report type, each once, and the empty list without an
\* error when there is none.
C7_ByReportTypeFilter ==
    (/\ op = "get_by_report_type"
     /\ disciplines # <<>>
     /\ Requested(args.report_type) \in VALID_REPORT_TYPES) =>
        /\ outcome = "ok"
        /\ \A i \in DOMAIN result :
              result[i].report_type = Requested(args.report_type)
        /\ ExactlyThose(result,
                        LAMBDA d : d.report_type = Requested(args.report_type))

\* The request ' ЗАЧЁТ ' on a catalogue of both report types.
C7_Witness ==
    /\ op = "get_by_report_type"
    /\ Requested(args.report_type) = ZACHET
    /\ \E i \in DOMAIN disciplines : disciplines[i].report_type = EKZAMEN
    /\ result # <<>>
    /\ Len(result) < Len(disciplines)

\* C8: on a non-empty catalogue, for min <= max, get_by_hours_range returns
\* exactly the records with min <= hours <= max, each once, and the empty
\* list without an error when there is none.
C8_ByHoursRangeFilter ==
    (/\ op = "get_by_hours_range"
     /\ disciplines # <<>>
     /\ args.min_hours <= args.max_hours) =>
        /\ outcome = "ok"
        /\ \A i \in DOMAIN result :
              args.min_hours <= result[i].hours /\ result[i].hours <= args.max_hours
        /\ ExactlyThose(result,
                        LAMBDA d : args.min_hours <= d.hours /\ d.hours <= args.max_hours)

\* A range whose two bounds are the hours of records of the catalogue, with
\* a record outside it.
C8_Witness ==
    /\ op = "get_by_hours_range"
    /\ args.min_hours < args.max_hours
    /\ \E i \in DOMAIN result : result[i].hours = args.min_hours
    /\ \E i \in DOMAIN result : result[i].hours = args.max_hours
    /\ \E i \in DOMAIN disciplines : disciplines[i].hours > args.max_hours

\* C9: on an empty catalogue each of the three reports raises the
\* empty-catalogue error, whatever its arguments (an unknown report type,
\* min > max).
C9_EmptyCatalogueRaises ==
    (/\ op \in {"get_full_list_sorted", "get_by_report_type", "get_by_hours_range"}
     /\ disciplines = <<>>) =>
        outcome = "EmptyDatabaseError" /\ result = <<>>

\* get_by_hours_range with min > max on the catalogue left empty by the
\* load of a file without a valid record.
C9_Witness ==
    /\ op = "get_by_hours_range"
    /\ args.min_hours > args.max_hours
    /\ files["disciplines_database.json"].data # <<>>
    /\ disciplines = <<>>
    /\ outcome = "EmptyDatabaseError"

\* C10: on a non-empty catalogue get_by_hours_range(a, b) returns what
\* get_by_hours_range(b, a) returns, and for a > b that is the records with
\* b <= hours <= a.
C10_HoursRangeSwap ==
    (op = "get_by_hours_range" /\ disciplines # <<>>) =>
        /\ outcome = "ok"
        /\ result = by_hours_range(disciplines, args.max_hours, args.min_hours)
        /\ args.min_hours > args.max_hours =>
              ExactlyThose(result,
                           LAMBDA d : args.max_hours <= d.hours /\ d.hours <= args.min_hours)

\* A call with min > max that returns records.
C10_Witness ==
    /\ op = "get_by_hours_range"
    /\ args.min_hours > args.max_hours
    /\ result # <<>>
    /\ Len(result) < Len(disciplines)

\* C11: on a non-empty catalogue, get_by_report_type with a request that is
\* neither 'зачёт' nor 'экзамен' once trimmed and lower-cased returns the
\* empty list and raises nothing, which differs from the outcome on an
\* empty catalogue.
C11_UnknownReportTypeEmpty ==
    (/\ op = "get_by_report_type"
     /\ disciplines # <<>>
     /\ Requested(args.report_type) \notin VALID_REPORT_TYPES) =>
        /\ outcome = "ok"
        /\ result = <<>>
        /\ outcome # "EmptyDatabaseError"

\* The request 'x' on a catalogue of three records.
C11_Witness ==
    /\ op = "get_by_report_type"
    /\ args.report_type = <<120>>
    /\ Len(disciplines) = 3
    /\ outcome = "ok"
    /\ result = <<>>

\* No two different elements of s have the same key.
NoDistinctTies(s, key_func) ==
    \A i, j \in DOMAIN s :
        KeyOf(key_func, s[i]) = KeyOf(key_func, s[j]) => s[i] = s[j]

\* C12, as claimed: a list already in non-decreasing key order, ties
\* included, is returned unchanged, and the sort of a sorted output is that
\* output.
C12_Idempotent ==
    /\ (Sorted /\ NonDecreasing(args.items, args.key_func)) => result = args.items
    /\ op = "sort_again" =>
          result = binary_insertion_sort(args.items, args.key_func)

\* C12, amended: a list already in non-decreasing key order in which no two
\* different elements have the same key is returned unchanged, and for
\* every list without two different elements of the same key the sort of
\* the sorted output is that output.
C12_IdempotentWithoutTies ==
    /\ (/\ Sorted
        /\ NonDecreasing(args.items, args.key_func)
        /\ NoDistinctTies(args.items, args.key_func)) => result = args.items
    /\ (op = "sort_again" /\ NoDistinctTies(args.items, args.key_func)) =>
          result = binary_insertion_sort(args.items, args.key_func)

\* The sort of a sorted list of three or more elements, two of them the
\* same element.
C12_Witness ==
    /\ Sorted
    /\ NonDecreasing(args.items, args.key_func)
    /\ NoDistinctTies(args.items, args.key_func)
    /\ Len(args.items) >= 3
    /\ \E i \in 1..(Len(args.items) - 1) : args.items[i] = args.items[i + 1]
    /\ \E i \in 1..(Len(args.items) - 1) : args.items[i] # args.items[i + 1]

\* C13: no report and no auxiliary query changes the catalogue, whether it
\* returns or raises: only load_from_file changes it, and the sort leaves
\* the list it is given (the catalogue itself in get_full_list_sorted) as
\* it was.
C13_OnlyLoadChangesCatalogue ==
    [][op' # "load_from_file" => disciplines' = disciplines]_vars

\* A full list in another order than the catalogue, which is still in the
\* order of the file it was loaded from.
C13_Witness ==
    /\ op = "get_full_list_sorted"
    /\ outcome = "ok"
    /\ Len(disciplines) = 3
    /\ result # disciplines
    /\ disciplines = <<DiscC, DiscA, DiscB>>

\* C14: in every reachable state every record of the catalogue satisfies
\* the domain constraints: semester in 1..8, duration in
\* 1..(8 - semester + 1), hours in 36..216, report type 'зачёт' or
\* 'экзамен', name and department not empty.
C14_CatalogueRecordsValid ==
    \A i \in DOMAIN disciplines :
        LET d == disciplines[i] IN
        /\ d.semester \in 1..8
        /\ d.duration \in 1..(8 - d.semester + 1)
        /\ d.hours \in 36..216
        /\ d.report_type \in {ZACHET, EKZAMEN}
        /\ d.name # <<>>
        /\ d.department # <<>>

\* A catalogue of two records, loaded from a file of three of which one has
\* the semester 0.
C14_Witness ==
    /\ op = "load_from_file"
    /\ outcome = "ok"
    /\ Len(files[args.filename].data) = 3
    /\ \E i \in DOMAIN files[args.filename].data :
          files[args.filename].data[i] = RecBadSemester
    /\ Len(disciplines) = 2

\* The Discipline object each JSON object that passes the validation
\* becomes.
DiscOf(object) ==
    CASE object = RecA -> DiscA
      [] object = RecB -> DiscB
      [] object = RecC -> DiscC
      [] object = RecD -> DiscD
      [] object = RecE -> DiscE

\* The records of the array data that pass the validation, in file order.
ValidRecordsOf(data) ==
    LET kept == SelectSeq(data, LAMBDA o : o \in {RecA, RecB, RecC, RecD, RecE})
    IN [i \in 1..Len(kept) |-> DiscOf(kept[i])]

\* C15: a load of a readable file replaces the catalogue by exactly the
\* records of the file that pass the validation, in file order, whatever
\* the catalogue held before; an invalid record, or one without a required
\* key, is skipped and neither ends the load nor drops the valid records
\* after it.
C15_LoadKeepsValidRecords ==
    (op = "load_from_file" /\ files[args.filename].error = "none") =>
        /\ outcome = "ok"
        /\ disciplines = ValidRecordsOf(files[args.filename].data)

\* C16: a load that fails because the file is missing, is not valid JSON or
\* is not readable raises the file-operation error and leaves the catalogue
\* exactly as it was before the call.
C16_FailedLoadKeepsCatalogue ==
    [][(/\ op' = "load_from_file"
        /\ files[args'.filename].error
               \in {"FileNotFoundError", "JSONDecodeError", "PermissionError"}) =>
           (outcome' = "FileOperationError" /\ disciplines' = disciplines)]_vars

\* A failed load of the missing file on a catalogue of three records.
C16_Witness ==
    /\ op = "load_from_file"
    /\ args.filename = "nonexistent_file.json"
    /\ outcome = "FileOperationError"
    /\ Len(disciplines) = 3

AuxiliaryQueries ==
    {"get_disciplines_count", "get_unique_departments",
     "get_unique_report_types", "get_all_discipline_names"}

\* C17, as claimed: on an empty catalogue the four auxiliary queries raise
\* the empty-catalogue error, as the three reports do.
C17_AuxiliaryQueriesRaise ==
    (op \in AuxiliaryQueries /\ disciplines = <<>>) =>
        outcome = "EmptyDatabaseError"

\* C17, amended: on an empty catalogue the four auxiliary queries raise
\* nothing: get_disciplines_count returns 0 and the other three return the
\* empty list.
C17_AuxiliaryQueriesReturn ==
    (op \in AuxiliaryQueries /\ disciplines = <<>>) =>
        /\ outcome = "ok"
        /\ IF op = "get_disciplines_count" THEN result = 0 ELSE result = <<>>

\* get_disciplines_count on the empty catalogue of a new Curriculum.
C17_Witness ==
    /\ op = "get_disciplines_count"
    /\ disciplines = <<>>
    /\ outcome = "ok"
    /\ result = 0

\* C18: for a list in non-decreasing key order and any element e,
\* _binary_search_insert_position returns the lower bound i, 0 <= i <= len:
\* every element at a Python index below i has a key less than key(e), every
\* element at an index from i on has a key not less than key(e), and the
\* list with e inserted at i is in non-decreasing key order.
C18_LowerBound ==
    op = "_binary_search_insert_position" =>
        LET key_func == args.key_func
            e_key    == KeyOf(key_func, args.element)
        IN /\ result \in 0..Len(args.items)
           /\ \A idx \in 1..result :
                 KeyLess(key_func, KeyOf(key_func, args.items[idx]), e_key)
           /\ \A idx \in (result + 1)..Len(args.items) :
                 ~KeyLess(key_func, KeyOf(key_func, args.items[idx]), e_key)
           /\ NonDecreasing(insert(args.items, result, args.element), key_func)

\* The search for an element whose key is in the list twice, with a smaller
\* key before and a larger key after: the answer is the first of the two.
C18_Witness ==
    /\ op = "_binary_search_insert_position"
    /\ args.key_func = "ident"
    /\ Len(args.items) = 4
    /\ [i \in 1..4 |-> args.items[i].k] = <<1, 2, 2, 3>>
    /\ args.element.k = 2
    /\ result = 1

Reports == {"get_full_list_sorted", "get_by_report_type", "get_by_hours_range"}

\* The records a report selects, in catalogue order: the list it hands to
\* _binary_insertion_sort.
ReportInput ==
    CASE op = "get_full_list_sorted" -> disciplines
      [] op = "get_by_report_type" ->
            SelectSeq(disciplines,
                      LAMBDA d : d.report_type = Requested(args.report_type))
      [] op = "get_by_hours_range" ->
            LET lo == IF args.min_hours > args.max_hours
                      THEN args.max_hours ELSE args.min_hours
                hi == IF args.min_hours > args.max_hours
                      THEN args.min_hours ELSE args.max_hours
            IN SelectSeq(disciplines, LAMBDA d : lo <= d.hours /\ d.hours <= hi)

\* The key function of a report.
ReportKey ==
    CASE op = "get_full_list_sorted" -> "full_list"
      [] op = "get_by_report_type"   -> "report_type"
      [] op = "get_by_hours_range"   -> "hours_range"

\* The place of items[i] when items is ordered by key ascending, then input
\* index descending: one more than the number of elements that go before it.
Rank(items, key_func, i) ==
    1 + Cardinality({j \in DOMAIN items :
            \/ KeyLess(key_func, KeyOf(key_func, items[j]), KeyOf(key_func, items[i]))
            \/ /\ KeyOf(key_func, items[j]) = KeyOf(key_func, items[i])
               /\ j > i})

\* C19: the output of _binary_insertion_sort is its input ordered by key
\* ascending, then input index descending, so every report is the list of
\* the records it selects with ties in the reverse of catalogue order.
C19_TiesInReverseCatalogueOrder ==
    (op \in Reports /\ outcome = "ok") =>
        /\ Len(result) = Len(ReportInput)
        /\ \A i \in DOMAIN ReportInput :
              result[Rank(ReportInput, ReportKey, i)] = ReportInput[i]

\* The full list of the catalogue [A, D, B]: A and D have one key, and D,
\* the later of the two, comes first.
C19_Witness ==
    /\ op = "get_full_list_sorted"
    /\ disciplines = <<DiscA, DiscD, DiscB>>
    /\ result = <<DiscB, DiscD, DiscA>>

----------------------------------------------------------------------------
(* Properties of the constructor (specification ValidateSpec).             *)

\* The number x is outside lo..hi; the float infinity is outside every
\* range.
Outside(x, lo, hi) == x.t = "float" \/ x.v < lo \/ x.v > hi

\* The error of the first violated rule in the order semester, duration,
\* hours, report type; "ok" when no rule is violated.
FirstViolatedRule ==
    IF Outside(args.semester, 1, 8) THEN "InvalidSemesterError"
    ELSE IF Outside(args.duration, 1, 9 - args.semester.v)
         THEN "InvalidDurationError"
    ELSE IF Outside(args.hours, 36, 216) THEN "InvalidHoursError"
    ELSE IF args.report_type.v \notin {ZACHET, EKZAMEN}
         THEN "InvalidReportTypeError"
    ELSE "ok"

\* C20: constructing a record with non-empty name and department ends with
\* the error of the first violated rule in the order semester (outside
\* 1..8), duration (outside 1..(9 - semester)), hours (outside 36..216),
\* report type (not canonical), and succeeds exactly when no rule is
\* violated; semester 1 with duration 8 is accepted, semester 7 with
\* duration 3 is rejected.
C20_FirstViolatedRuleDecides ==
    op = "Discipline" =>
        /\ outcome = FirstViolatedRule
        /\ outcome = "ok" =>
              result = Obj(<<65>>, args.semester.v, args.duration.v,
                           args.hours.v, args.report_type.v, <<90>>)
        /\ (args.semester = JInt(7) /\ args.duration = JInt(3)) =>
              outcome = "InvalidDurationError"

\* The same for arguments that are all integers.
C20_FirstViolatedRuleOfIntegers ==
    (/\ op = "Discipline"
     /\ args.semester.t = "int"
     /\ args.duration.t = "int"
     /\ args.hours.t = "int") => C20_FirstViolatedRuleDecides

====
